---- MODULE Spec2Model ----
(***************************************************************************)
(* A model of eduhub_queries.py: the six collections of eduhub_db, the     *)
(* sample-data generator, the CRUD accessors, the aggregation pipelines,   *)
(* create_indexes and insert_with_error_handling.                          *)
(*                                                                         *)
(* A document is a record; an absent field is a name outside the record's  *)
(* DOMAIN.  Documents carry the fields some modelled operation reads or    *)
(* writes (names, descriptions, urls and the generated business ids that   *)
(* no operation reads are left out).  A collection is the set of its       *)
(* documents, each with its own _id.  A date is <<year, month, day>>.  An   *)
(* average is the pair <<sum, count>> (the exact quotient), compared by    *)
(* cross multiplication.                                                   *)
(***************************************************************************)
EXTENDS Integers, Sequences, FiniteSets, TLC

VARIABLES
    users,                   \* db.users
    courses,                 \* db.courses
    enrollments,             \* db.enrollments
    lessons,                 \* db.lessons
    assignments,             \* db.assignments
    submissions,             \* db.submissions
    assignment_submissions,  \* db.assignment_submissions
    indexes,                 \* the indexes declared on the collections
    nextOid,                 \* the next ObjectId the driver hands out
    call,                    \* the last call: [op, args]
    ret,                     \* what it gave its caller: [raised, value]
    stdout                   \* what it printed

vars == <<users, courses, enrollments, lessons, assignments, submissions,
          assignment_submissions, indexes, nextOid, call, ret, stdout>>

storage == <<users, courses, enrollments, lessons, assignments, submissions,
             assignment_submissions>>

-----------------------------------------------------------------------------
(* Bounds and value domains *)

\* The accessors insert at most this many documents after the generator ran.
MaxInserts == 2

FirstOid == 101

\* instructors and students, the lists the generator draws from: the userIds
\* of the generated users of each role
InstructorIds == {"u001", "u003"}
StudentIds == {"u002", "u004"}
Categories == {"Programming", "Design"}
Prices == {10, 60}
Ratings == {2, 5}
Grades == {80, 90, 100}
Dates == {<<2023, 12, 9>>, <<2024, 1, 5>>, <<2024, 1, 20>>}

\* BSON null, and what a reference to an absent field evaluates to.
Null == <<>>

Field(doc, f) == IF f \in DOMAIN doc THEN doc[f] ELSE Null

-----------------------------------------------------------------------------
(* The generator's documents *)

UserDoc(uid, email, role) ==
    [userId |-> uid, email |-> email, role |-> role, isActive |-> TRUE]

CourseDoc(cid, instructor, category, price) ==
    [courseId |-> cid, instructorId |-> instructor, category |-> category,
     price |-> price, tags |-> {"Python", "MongoDB"}, isPublished |-> FALSE]

EnrollmentDoc(student, cid, date) ==
    [studentId |-> student, courseId |-> cid, enrolledAt |-> date,
     progress |-> 50]

LessonDoc(cid) == [courseId |-> cid, order |-> 1]

AssignmentDoc(cid) == [courseId |-> cid, dueDate |-> <<2024, 2, 1>>]

SubmissionDoc(student, grade) == [studentId |-> student, grade |-> grade]

\* insert_many gives each document its _id.
WithId(doc, oid) == ("_id" :> oid) @@ doc

-----------------------------------------------------------------------------
(* The generator (module level, lines 27-141).  Its loops run 25, 8, 15,    *)
(* 25, 10 and 12 times in the program; the model runs the users loop four  *)
(* times, the lessons and assignments loops once and the others as often   *)
(* as each specification says.                                             *)

GenUsers ==
    { WithId(UserDoc("u001", "i1@x.org", "instructor"), 1),
      WithId(UserDoc("u002", "s1@x.org", "student"), 2),
      WithId(UserDoc("u003", "i2@x.org", "instructor"), 3),
      WithId(UserDoc("u004", "s2@x.org", "student"), 4) }

CourseIds == <<"c001", "c002">>

\* The collections a loop of n rounds can produce, its random draws taken
\* from the given sets.
GenCourses(n, instrs, cats, prices) ==
    { {WithId(CourseDoc(CourseIds[i], f[i][1], f[i][2], f[i][3]), 10 + i) :
          i \in 1..n} :
        f \in [1..n -> instrs \X cats \X prices] }

GenEnrollments(n, cs, studs, dates) ==
    { {WithId(EnrollmentDoc(f[i][1], f[i][2].courseId, f[i][3]), 20 + i) :
          i \in 1..n} :
        f \in [1..n -> studs \X cs \X dates] }

GenLessons(cs) ==
    { {WithId(LessonDoc(c.courseId), 31)} : c \in cs }

GenAssignments(cs) ==
    { {WithId(AssignmentDoc(c.courseId), 41)} : c \in cs }

GenSubmissions(n, studs, grades) ==
    { {WithId(SubmissionDoc(f[i][1], f[i][2]), 50 + i) : i \in 1..n} :
        f \in [1..n -> studs \X grades] }

\* One run of the generator: the rounds of its loops and the sets its random
\* draws are taken from.
OneDraw ==
    [nCourses |-> 1, instructors |-> {"u001"}, categories |-> {"Programming"},
     prices |-> {10},
     nEnrollments |-> 1, students |-> {"u002"}, dates |-> {<<2024, 1, 5>>},
     lessonCourses |-> {"c001"},
     nSubmissions |-> 1, grades |-> {90}]

\* The state once the module-level code has run.
Generated(g) ==
    /\ users = GenUsers
    /\ courses \in GenCourses(g.nCourses, g.instructors, g.categories, g.prices)
    /\ enrollments \in GenEnrollments(g.nEnrollments, courses, g.students,
                                      g.dates)
    /\ lessons \in GenLessons({c \in courses : c.courseId \in g.lessonCourses})
    /\ assignments \in
           GenAssignments({c \in courses : c.courseId \in g.lessonCourses})
    /\ submissions \in GenSubmissions(g.nSubmissions, g.students, g.grades)
    /\ assignment_submissions = {}
    /\ indexes = {}
    /\ nextOid = FirstOid
    /\ call = [op |-> "generate", args |-> <<>>]
    /\ ret = [raised |-> FALSE, value |-> Null]
    /\ stdout = <<>>

-----------------------------------------------------------------------------
(* The driver's operations on one collection *)

\* An index is [coll, keys, unique].  Whether doc's key is already held by a
\* document of coll under a unique index of the collection called name.
DuplicateKey(name, coll, doc) ==
    \E ix \in indexes :
        /\ ix.coll = name
        /\ ix.unique
        /\ \E d \in coll :
               \A i \in DOMAIN ix.keys : d[ix.keys[i]] = doc[ix.keys[i]]

\* insert_one: the collection after the insert, or the error raised.
InsertOne(name, coll, doc) ==
    IF DuplicateKey(name, coll, doc)
    THEN [raised |-> TRUE, value |-> "DuplicateKeyError", coll |-> coll]
    ELSE [raised |-> FALSE, value |-> "InsertOneResult",
          coll |-> coll \cup {WithId(doc, nextOid)}]

\* update_one: the collections it can leave, found being the documents that
\* match the filter and update[d] the updated d (one matching document is
\* updated, none when nothing matches; no upsert).
UpdateOne(coll, found, update) ==
    IF found = {} THEN {coll}
    ELSE {(coll \ {d}) \cup {update[d]} : d \in found}

\* delete_one({"_id": oid})
DeleteOne(coll, oid) == {d \in coll : d._id # oid}

\* ObjectId(s): s stands for the 24-digit hex string of ObjectId s when
\* s > 0, and for a string that is no ObjectId (such as "e001") when s = 0,
\* on which ObjectId raises InvalidId.
ValidObjectId(s) == s > 0

\* What every call leaves: its name and arguments, its result, its output.
Returns(op, args, raised, value, out) ==
    /\ call' = [op |-> op, args |-> args]
    /\ ret' = [raised |-> raised, value |-> value]
    /\ stdout' = out

-----------------------------------------------------------------------------
(* Part 3: the CRUD accessors *)

\* The four create accessors are one insert_one each.
Insert(op, name, coll, doc) ==
    LET r == InsertOne(name, coll, doc)
    IN  /\ r.raised \/ nextOid < FirstOid + MaxInserts
        /\ nextOid' = IF r.raised THEN nextOid ELSE nextOid + 1
        /\ Returns(op, <<doc>>, r.raised, r.value, <<>>)

add_student_user(user) ==
    /\ Insert("add_student_user", "users", users, user)
    /\ users' = InsertOne("users", users, user).coll
    /\ UNCHANGED <<courses, enrollments, lessons, assignments, submissions,
                   assignment_submissions, indexes>>

create_course(course) ==
    /\ Insert("create_course", "courses", courses, course)
    /\ courses' = InsertOne("courses", courses, course).coll
    /\ UNCHANGED <<users, enrollments, lessons, assignments, submissions,
                   assignment_submissions, indexes>>

enroll_student(enrollment) ==
    /\ Insert("enroll_student", "enrollments", enrollments, enrollment)
    /\ enrollments' = InsertOne("enrollments", enrollments, enrollment).coll
    /\ UNCHANGED <<users, courses, lessons, assignments, submissions,
                   assignment_submissions, indexes>>

add_lesson_to_course(lesson) ==
    /\ Insert("add_lesson_to_course", "lessons", lessons, lesson)
    /\ lessons' = InsertOne("lessons", lessons, lesson).coll
    /\ UNCHANGED <<users, courses, enrollments, assignments, submissions,
                   assignment_submissions, indexes>>

\* $set: the given fields replace or extend the document's.
SetFields(doc, fields) == fields @@ doc

update_user_profile(user_id, update_fields) ==
    LET found == {u \in users : u.userId = user_id}
        args == <<user_id, update_fields>>
    IN  /\ IF found = {}
           THEN /\ users' = users
                /\ Returns("update_user_profile", args, FALSE, "UpdateResult",
                           <<>>)
           ELSE \E d \in found :
                    LET new == SetFields(d, update_fields)
                    IN  IF DuplicateKey("users", users \ {d}, new)
                        THEN /\ users' = users
                             /\ Returns("update_user_profile", args, TRUE,
                                        "DuplicateKeyError", <<>>)
                        ELSE /\ users' = (users \ {d}) \cup {new}
                             /\ Returns("update_user_profile", args, FALSE,
                                        "UpdateResult", <<>>)
        /\ UNCHANGED <<courses, enrollments, lessons, assignments,
                       submissions, assignment_submissions, indexes, nextOid>>

mark_course_published(course_id) ==
    /\ courses' \in
           UpdateOne(courses, {d \in courses : d.courseId = course_id},
                     [d \in courses |-> SetFields(d, [isPublished |-> TRUE])])
    /\ Returns("mark_course_published", <<course_id>>, FALSE, "UpdateResult",
               <<>>)
    /\ UNCHANGED <<users, enrollments, lessons, assignments, submissions,
                   assignment_submissions, indexes, nextOid>>

update_assignment_grade(submission_id, grade) ==
    /\ IF ~ValidObjectId(submission_id)
       THEN /\ assignment_submissions' = assignment_submissions
            /\ Returns("update_assignment_grade", <<submission_id, grade>>,
                       TRUE, "InvalidId", <<>>)
       ELSE /\ assignment_submissions' \in
                  UpdateOne(assignment_submissions,
                            {d \in assignment_submissions :
                                d._id = submission_id},
                            [d \in assignment_submissions |->
                                SetFields(d, [grade |-> grade])])
            /\ Returns("update_assignment_grade", <<submission_id, grade>>,
                       FALSE, "UpdateResult", <<>>)
    /\ UNCHANGED <<users, courses, enrollments, lessons, assignments,
                   submissions, indexes, nextOid>>

add_tags_to_course(course_id, tags) ==
    /\ courses' \in
           UpdateOne(courses, {d \in courses : d.courseId = course_id},
                     [d \in courses |-> [d EXCEPT !.tags = @ \cup tags]])
    /\ Returns("add_tags_to_course", <<course_id, tags>>, FALSE,
               "UpdateResult", <<>>)
    /\ UNCHANGED <<users, enrollments, lessons, assignments, submissions,
                   assignment_submissions, indexes, nextOid>>

\* soft_delete_user deleting the user document
soft_delete_user_Remove(user_id) ==
    /\ \E d \in {u \in users : u.userId = user_id} : users' = users \ {d}
    /\ Returns("soft_delete_user", <<user_id>>, FALSE, "DeleteResult", <<>>)
    /\ UNCHANGED <<courses, enrollments, lessons, assignments, submissions,
                   assignment_submissions, indexes, nextOid>>

soft_delete_user(user_id) ==
    /\ users' \in
           UpdateOne(users, {d \in users : d.userId = user_id},
                     [d \in users |-> SetFields(d, [isActive |-> FALSE])])
    /\ Returns("soft_delete_user", <<user_id>>, FALSE, "UpdateResult", <<>>)
    /\ UNCHANGED <<courses, enrollments, lessons, assignments, submissions,
                   assignment_submissions, indexes, nextOid>>

delete_enrollment(enrollment_id) ==
    /\ IF ~ValidObjectId(enrollment_id)
       THEN /\ enrollments' = enrollments
            /\ Returns("delete_enrollment", <<enrollment_id>>, TRUE,
                       "InvalidId", <<>>)
       ELSE /\ enrollments' = DeleteOne(enrollments, enrollment_id)
            /\ Returns("delete_enrollment", <<enrollment_id>>, FALSE,
                       "DeleteResult", <<>>)
    /\ UNCHANGED <<users, courses, lessons, assignments, submissions,
                   assignment_submissions, indexes, nextOid>>

remove_lesson(lesson_id) ==
    /\ IF ~ValidObjectId(lesson_id)
       THEN /\ lessons' = lessons
            /\ Returns("remove_lesson", <<lesson_id>>, TRUE, "InvalidId", <<>>)
       ELSE /\ lessons' = DeleteOne(lessons, lesson_id)
            /\ Returns("remove_lesson", <<lesson_id>>, FALSE, "DeleteResult",
                       <<>>)
    /\ UNCHANGED <<users, courses, enrollments, assignments, submissions,
                   assignment_submissions, indexes, nextOid>>

\* The read accessors (Task 3.2 and 4.1) and the pipelines change nothing.
Query(op, args, value) ==
    /\ Returns(op, args, FALSE, value, <<>>)
    /\ UNCHANGED <<storage, indexes, nextOid>>

-----------------------------------------------------------------------------
(* Aggregation stages *)

\* {"$match": {f: {"$exists": True}}}
MatchExists(docs, f) == {d \in docs : f \in DOMAIN d}

\* {"$match": {f: v}}
MatchEquals(docs, f, v) == {d \in docs : d[f] = v}

\* {"$group": {"_id": key, ...accumulators}}: one document per key value;
\* key[d] is the key of document d and acc[S] the accumulated fields of the
\* documents S of one group.
Group(docs, key, acc) ==
    { ("_id" :> k) @@ acc[{d \in docs : key[d] = k}] :
        k \in {key[d] : d \in docs} }

\* {"$lookup": ...}: the joined documents are added as a set.
Lookup(docs, from, localField, foreignField, as) ==
    { (as :> {f \in from : f[foreignField] = d[localField]}) @@ d :
        d \in docs }

\* {"$unwind": path}: one document per joined element, none for an empty
\* array.
Unwind(docs, path) ==
    UNION { {[d EXCEPT ![path] = x] : x \in d[path]} : d \in docs }

\* {"$sort": ...}: the orders of docs that agree with leq (leq[<<a, b>>]: a
\* may come before b); the order of the documents the key does not tell
\* apart is not defined.
Sort(docs, leq) ==
    { s \in [1..Cardinality(docs) -> docs] :
        \A i, j \in 1..Cardinality(docs) :
            i < j => s[i] # s[j] /\ leq[<<s[i], s[j]>>] }

\* {"$sum": expression} over the documents of S, f[d] the expression's value
\* on d
SumOver(S, f) ==
    LET sum[T \in SUBSET S] ==
            IF T = {} THEN 0
            ELSE LET d == CHOOSE x \in T : TRUE
                 IN  f[d] + sum[T \ {d}]
    IN  sum[S]

\* {"$sum": "$f"}: a document without f adds nothing.
SumField(S, f) ==
    SumOver(S, [d \in S |-> IF f \in DOMAIN d THEN d[f] ELSE 0])

\* {"$avg": "$f"}: over the documents that have f; null when none has.
Avg(S, f) ==
    LET T == {d \in S : f \in DOMAIN d}
    IN  IF T = {} THEN Null ELSE <<SumField(T, f), Cardinality(T)>>

\* a <= b for two averages
AvgLeq(a, b) == a[1] * b[2] <= b[1] * a[2]

\* {"$dateToString": {"format": "%Y-%m", "date": d}}: null for a null or
\* absent date.  The period "YYYY-MM" is <<year, month>>.
DateToString(d) == IF d = Null THEN Null ELSE <<d[1], d[2]>>

\* The order of the period strings, null before every string.
PeriodLeq(p, q) ==
    \/ p = Null
    \/ /\ q # Null
       /\ \/ p[1] < q[1]
          \/ p[1] = q[1] /\ p[2] <= q[2]

\* {"$group": {"_id": "$f", name: {"$sum": 1}}}
GroupCount(docs, f, name) ==
    Group(docs, [d \in docs |-> d[f]],
          [S \in SUBSET docs |-> (name :> Cardinality(S))])

\* {"$group": {"_id": "$f", name: {"$avg": "$g"}}}
GroupAvg(docs, f, name, g) ==
    Group(docs, [d \in docs |-> d[f]],
          [S \in SUBSET docs |-> (name :> Avg(S, g))])

-----------------------------------------------------------------------------
(* Task 4.2: the pipelines, each the value its aggregate call returns *)

\* EnrollmentsPerCourse grouping on the wrong identifier
EnrollmentsPerCourse_ByStudent ==
    GroupCount(enrollments, "studentId", "totalEnrollments")

\* Count total enrollments per course
EnrollmentsPerCourse ==
    GroupCount(enrollments, "courseId", "totalEnrollments")

\* Calculate average course rating
AverageCourseRating ==
    GroupAvg(MatchExists(courses, "rating"), "courseId", "avgRating", "rating")

\* Group by course category
CoursesPerCategory == GroupCount(courses, "category", "totalCourses")

\* Average grade per student
AverageGradePerStudent ==
    GroupAvg(submissions, "studentId", "averageGrade", "grade")

\* Completion rate by course
CompletionRateByCourse ==
    GroupAvg(enrollments, "courseId", "avgProgress", "progress")

\* TopMatch with $gt for $gte
TopMatch_Strict(d) ==
    d.averageGrade # Null /\ d.averageGrade[1] > 90 * d.averageGrade[2]

\* {"averageGrade": {"$gte": 90}}
TopMatch(d) ==
    d.averageGrade # Null /\ d.averageGrade[1] >= 90 * d.averageGrade[2]

\* {"$sort": {"averageGrade": -1}}
TopOrder(a, b) == AvgLeq(b.averageGrade, a.averageGrade)

\* Top-performing students: the orders the sort can return
TopStudents ==
    LET grouped == GroupAvg(submissions, "studentId", "averageGrade", "grade")
        matched == {d \in grouped : TopMatch(d)}
    IN  Sort(matched, [p \in matched \X matched |-> TopOrder(p[1], p[2])])

\* Total students taught by each instructor
StudentsPerInstructor ==
    LET joined == Lookup(courses, enrollments, "courseId", "courseId",
                         "course_enrollments")
    IN  Group(joined, [d \in joined |-> d.instructorId],
              [S \in SUBSET joined |->
                  [totalStudents |->
                      SumOver(S, [d \in S |->
                                     Cardinality(d.course_enrollments)])]])

\* AverageRatingPerInstructor without its $match stage
AverageRatingPerInstructor_NoMatch ==
    GroupAvg(courses, "instructorId", "averageRating", "rating")

\* Average course rating per instructor
AverageRatingPerInstructor ==
    GroupAvg(MatchExists(courses, "rating"), "instructorId", "averageRating",
             "rating")

\* RevenueProject without the enrollment count
RevenueProject_PriceOnly(docs) ==
    { [_id |-> d._id, instructorId |-> d.instructorId, revenue |-> d.price] :
        d \in docs }

\* {"$project": {"instructorId": 1, "revenue": {"$multiply": [...]}}}
RevenueProject(docs) ==
    { [_id |-> d._id, instructorId |-> d.instructorId,
       revenue |-> Cardinality(d.enrolls) * d.price] : d \in docs }

\* Revenue generated per instructor
RevenuePerInstructor ==
    LET projected ==
            RevenueProject(Lookup(courses, enrollments, "courseId",
                                  "courseId", "enrolls"))
    IN  Group(projected, [d \in projected |-> d.instructorId],
              [S \in SUBSET projected |->
                  [totalRevenue |-> SumField(S, "revenue")]])

\* The date the trend pipeline groups on
TrendDate(d) == Field(d, "enrollmentDate")

\* Monthly enrollment trends: the orders the sort can return
MonthlyEnrollmentTrends ==
    LET grouped ==
            Group(enrollments,
                  [d \in enrollments |-> DateToString(TrendDate(d))],
                  [S \in SUBSET enrollments |->
                      [totalEnrollments |-> Cardinality(S)]])
    IN  Sort(grouped,
             [p \in grouped \X grouped |-> PeriodLeq(p[1]._id, p[2]._id)])

\* {"$lookup": from courses as course}, {"$unwind": "$course"},
\* {"$group": {"_id": "$course.category", "total": {"$sum": 1}}}
EnrollmentsByCategory ==
    LET unwound == Unwind(Lookup(enrollments, courses, "courseId", "courseId",
                                 "course"),
                          "course")
    IN  Group(unwound, [d \in unwound |-> d.course.category],
              [S \in SUBSET unwound |-> [total |-> Cardinality(S)]])

\* MostPopularCategories sorted the other way
MostPopularCategories_Ascending ==
    Sort(EnrollmentsByCategory,
         [p \in EnrollmentsByCategory \X EnrollmentsByCategory |->
             p[1].total <= p[2].total])

\* Most popular course categories: the orders the sort can return
MostPopularCategories ==
    Sort(EnrollmentsByCategory,
         [p \in EnrollmentsByCategory \X EnrollmentsByCategory |->
             p[1].total >= p[2].total])

\* Student engagement metrics (average progress per course)
StudentEngagement ==
    GroupAvg(enrollments, "courseId", "avgProgress", "progress")

-----------------
(* Task 3.2 and 4.1: the read accessors, as the values they return.        *)
(* search_courses_by_title, recent_users and assignments_due_next_week are *)
(* finds like these, over a regular expression and the clock, and are not  *)
(* modelled.                                                               *)

get_active_students ==
    {u \in users : u.role = "student" /\ u.isActive}

get_course_with_instructor(course_id) ==
    Lookup(MatchEquals(courses, "courseId", course_id),
           users, "instructorId", "userId", "instructor")

get_courses_by_category(category) ==
    {c \in courses : c.category = category}

get_students_in_course(course_id) ==
    Lookup(MatchEquals(enrollments, "courseId", course_id),
           users, "studentId", "userId", "student")

find_courses_in_price_range ==
    {c \in courses : c.price >= 50 /\ c.price <= 200}

find_courses_with_tags(tags) ==
    {c \in courses : c.tags \cap tags # {}}

-----------------------------------------------------------------------------
(* Part 5: create_indexes *)

\* EmailIndex declared without unique=True
EmailIndex_NotUnique ==
    [coll |-> "users", keys |-> <<"email">>, unique |-> FALSE]

EmailIndex == [coll |-> "users", keys |-> <<"email">>, unique |-> TRUE]

TitleCategoryIndex ==
    [coll |-> "courses", keys |-> <<"title", "category">>, unique |-> FALSE]

DueDateIndex ==
    [coll |-> "assignments", keys |-> <<"dueDate">>, unique |-> FALSE]

StudentCourseIndex ==
    [coll |-> "enrollments", keys |-> <<"studentId", "courseId">>,
     unique |-> FALSE]

\* Two documents of coll with the same key.
HasDuplicates(coll, keys) ==
    \E d1, d2 \in coll :
        d1 # d2 /\ \A i \in DOMAIN keys : d1[keys[i]] = d2[keys[i]]

\* create_index: an index already declared the same way is left as it is; a
\* unique index cannot be built over duplicates.
CreateIndex(ixs, ix, coll) ==
    IF ix \in ixs THEN [raised |-> FALSE, indexes |-> ixs]
    ELSE IF ix.unique /\ HasDuplicates(coll, ix.keys)
         THEN [raised |-> TRUE, indexes |-> ixs]
         ELSE [raised |-> FALSE, indexes |-> ixs \cup {ix}]

\* The four declarations in turn; the first one that raises ends the call.
create_indexes ==
    LET r1 == CreateIndex(indexes, EmailIndex, users)
        r2 == CreateIndex(r1.indexes, TitleCategoryIndex, courses)
        r3 == CreateIndex(r2.indexes, DueDateIndex, assignments)
        r4 == CreateIndex(r3.indexes, StudentCourseIndex, enrollments)
    IN  /\ IF r1.raised
           THEN /\ indexes' = r1.indexes
                /\ Returns("create_indexes", <<>>, TRUE, "DuplicateKeyError",
                           <<>>)
           ELSE /\ indexes' = r4.indexes
                /\ Returns("create_indexes", <<>>, FALSE, Null, <<>>)
        /\ UNCHANGED <<storage, nextOid>>

\* explain_and_time(query_func), for a find: it prints the time and returns
\* the plan.
explain_and_time ==
    /\ Returns("explain_and_time", <<>>, FALSE, "explanation",
               <<"Execution Time">>)
    /\ UNCHANGED <<storage, indexes, nextOid>>

-----------------------------------------------------------------------------
(* Part 6: insert_with_error_handling *)

\* Handled letting the exception through
Handled_Reraise(r) ==
    [raised |-> r.raised, value |-> Null,
     out |-> IF r.raised THEN <<"Insertion failed">> ELSE <<>>]

\* try / except Exception / print: what the caller gets for the insert's
\* outcome r.
Handled(r) ==
    [raised |-> FALSE, value |-> Null,
     out |-> IF r.raised THEN <<"Insertion failed">> ELSE <<>>]

\* collection is db.users or db.courses here.
insert_with_error_handling(collection, document) ==
    LET coll == IF collection = "users" THEN users ELSE courses
        r == InsertOne(collection, coll, document)
        h == Handled(r)
    IN  /\ r.raised \/ nextOid < FirstOid + MaxInserts
        /\ nextOid' = IF r.raised THEN nextOid ELSE nextOid + 1
        /\ users' = IF collection = "users" THEN r.coll ELSE users
        /\ courses' = IF collection = "users" THEN courses ELSE r.coll
        /\ Returns("insert_with_error_handling", <<collection, document>>,
                   h.raised, IF h.raised THEN r.value ELSE h.value, h.out)
        /\ UNCHANGED <<enrollments, lessons, assignments, submissions,
                       assignment_submissions, indexes>>

-----------------------------------------------------------------------------
(* The pipelines and read accessors as calls *)

RunEnrollmentsPerCourse ==
    Query("EnrollmentsPerCourse", <<>>, EnrollmentsPerCourse)

RunAverageCourseRating ==
    Query("AverageCourseRating", <<>>, AverageCourseRating)

RunCoursesPerCategory == Query("CoursesPerCategory", <<>>, CoursesPerCategory)

RunAverageGradePerStudent ==
    Query("AverageGradePerStudent", <<>>, AverageGradePerStudent)

RunCompletionRateByCourse ==
    Query("CompletionRateByCourse", <<>>, CompletionRateByCourse)

RunTopStudents == \E s \in TopStudents : Query("TopStudents", <<>>, s)

RunStudentsPerInstructor ==
    Query("StudentsPerInstructor", <<>>, StudentsPerInstructor)

RunAverageRatingPerInstructor ==
    Query("AverageRatingPerInstructor", <<>>, AverageRatingPerInstructor)

RunRevenuePerInstructor ==
    Query("RevenuePerInstructor", <<>>, RevenuePerInstructor)

RunMonthlyEnrollmentTrends ==
    \E s \in MonthlyEnrollmentTrends :
        Query("MonthlyEnrollmentTrends", <<>>, s)

RunMostPopularCategories ==
    \E s \in MostPopularCategories : Query("MostPopularCategories", <<>>, s)

RunStudentEngagement == Query("StudentEngagement", <<>>, StudentEngagement)

-----------------------------------------------------------------------------------------------------------------------------------------
(* Enrollment counts: the generator, create_course, enroll_student,         *)
(* delete_enrollment, and the per-course and per-category counts.          *)

InitEnrollments ==
    Generated([OneDraw EXCEPT !.nCourses = 2, !.categories = Categories,
                              !.nEnrollments = 2])

NextEnrollments ==
    \/ \E cid \in {"c001", "c002"}, cat \in Categories :
           create_course(CourseDoc(cid, "u001", cat, 10))
    \/ \E cid \in {"c001", "c009"} :
           enroll_student(EnrollmentDoc("u002", cid, <<2024, 1, 5>>))
    \/ \E oid \in {0, 21} : delete_enrollment(oid)
    \/ RunEnrollmentsPerCourse
    \/ RunMostPopularCategories

SpecEnrollments == InitEnrollments /\ [][NextEnrollments]_vars

\* The elements of a sequence
Range(s) == {s[i] : i \in DOMAIN s}

\* The Enrollment records whose courseId is cid
EnrollmentsOf(cid) == {e \in enrollments : e.courseId = cid}

\* C1 as claimed: the per-course enrollment count reports, for every course
\* of the courses collection, the number of Enrollment records with its
\* courseId, a course without enrollments with the count 0.
C1_EveryCourseCounted ==
    call.op = "EnrollmentsPerCourse" =>
        \A c \in courses :
            \E r \in ret.value :
                /\ r._id = c.courseId
                /\ r.totalEnrollments = Cardinality(EnrollmentsOf(c.courseId))

\* C1 as amended: the per-course enrollment count reports exactly the
\* courseIds that at least one Enrollment record carries, each once and with
\* the number of Enrollment records that carry it; a course without
\* enrollments is left out of the result.
C1_EnrolledCoursesCounted ==
    call.op = "EnrollmentsPerCourse" =>
        /\ {r._id : r \in ret.value} = {e.courseId : e \in enrollments}
        /\ \A r \in ret.value :
               /\ r.totalEnrollments = Cardinality(EnrollmentsOf(r._id))
               /\ \A q \in ret.value : q._id = r._id => q = r
        /\ \A c \in courses :
               EnrollmentsOf(c.courseId) = {} =>
                   ~ \E r \in ret.value : r._id = c.courseId

\* The count was taken with one course enrolled in twice and another not at
\* all.
C1_Witness ==
    /\ call.op = "EnrollmentsPerCourse"
    /\ \E c \in courses : EnrollmentsOf(c.courseId) = {}
    /\ \E c \in courses : Cardinality(EnrollmentsOf(c.courseId)) >= 2

\* The Enrollment records whose courseId is that of a course of category k
EnrollmentsIn(k) ==
    {e \in enrollments :
        \E c \in courses : c.courseId = e.courseId /\ c.category = k}

\* The pairs of an Enrollment record and a course of category k with its
\* courseId
MatchesIn(k) ==
    {m \in enrollments \X courses :
        m[1].courseId = m[2].courseId /\ m[2].category = k}

\* The rows are in descending order of total.
DescendingTotals(rows) ==
    \A i, j \in DOMAIN rows : i < j => rows[i].total >= rows[j].total

\* C9 as claimed: the most-popular-categories query returns, for each
\* category, the number of Enrollment records whose courseId matches a
\* course of that category, in descending order of that number; an
\* enrollment that matches no course counts nowhere and a category without
\* matched enrollments does not appear.
C9_EnrollmentsPerCategory ==
    call.op = "MostPopularCategories" =>
        /\ Range(ret.value) =
               {[_id |-> k, total |-> Cardinality(EnrollmentsIn(k))] :
                   k \in {c \in Categories : EnrollmentsIn(c) # {}}}
        /\ Cardinality(Range(ret.value)) = Cardinality(DOMAIN ret.value)
        /\ DescendingTotals(ret.value)

\* C9 as amended: the query returns, for each category, the number of pairs
\* of an Enrollment record and a course of that category with the same
\* courseId (the number of such Enrollment records when no two courses of
\* the category share a courseId), in descending order of that number; an
\* enrollment that matches no course counts nowhere and a category without
\* matched enrollments does not appear.
C9_MatchesPerCategory ==
    call.op = "MostPopularCategories" =>
        /\ Range(ret.value) =
               {[_id |-> k, total |-> Cardinality(MatchesIn(k))] :
                   k \in {c \in Categories : MatchesIn(c) # {}}}
        /\ Cardinality(Range(ret.value)) = Cardinality(DOMAIN ret.value)
        /\ DescendingTotals(ret.value)
        /\ ~ ret.raised

\* The query ran with an enrollment that matches no course, a category whose
\* courses have no enrollment, and another category that has some.
C9_Witness ==
    /\ call.op = "MostPopularCategories"
    /\ \E e \in enrollments : ~ \E c \in courses : c.courseId = e.courseId
    /\ \E c \in courses : MatchesIn(c.category) = {}
    /\ Cardinality(DOMAIN ret.value) >= 1

-----------------------------------------------------------------------------
(* Enrollment trend: the generator, enroll_student, delete_enrollment and   *)
(* the monthly trend.                                                      *)

InitTrends == Generated([OneDraw EXCEPT !.nEnrollments = 2, !.dates = Dates])

NextTrends ==
    \/ \E d \in Dates : enroll_student(EnrollmentDoc("u002", "c001", d))
    \/ \E oid \in {0, 21} : delete_enrollment(oid)
    \/ RunMonthlyEnrollmentTrends

SpecTrends == InitTrends /\ [][NextTrends]_vars

\* The year-months of the enrollment timestamps in storage
EnrollmentMonths == {DateToString(e.enrolledAt) : e \in enrollments}

\* C2: the monthly trend has one period per year-month of an enrolledAt in
\* storage, each with the number of Enrollment records of that month, in
\* ascending order of period.
C2_TrendByEnrollmentMonth ==
    call.op = "MonthlyEnrollmentTrends" =>
        /\ Cardinality(DOMAIN ret.value) = Cardinality(EnrollmentMonths)
        /\ {r._id : r \in Range(ret.value)} = EnrollmentMonths
        /\ \A r \in Range(ret.value) :
               r.totalEnrollments =
                   Cardinality({e \in enrollments :
                                   DateToString(e.enrolledAt) = r._id})
        /\ \A i, j \in DOMAIN ret.value :
               i < j => PeriodLeq(ret.value[i]._id, ret.value[j]._id)

-----------------------------------------------------------------------------
(* Revenue: the generator, create_course, enroll_student, delete_enrollment *)
(* and the revenue per instructor.                                         *)

InitRevenue ==
    Generated([OneDraw EXCEPT !.nCourses = 2, !.instructors = InstructorIds,
                              !.prices = Prices, !.nEnrollments = 2])

NextRevenue ==
    \/ \E cid \in {"c001", "c003"}, i \in InstructorIds, p \in Prices :
           create_course(CourseDoc(cid, i, "Programming", p))
    \/ \E cid \in {"c001", "c009"} :
           enroll_student(EnrollmentDoc("u002", cid, <<2024, 1, 5>>))
    \/ \E oid \in {0, 21} : delete_enrollment(oid)
    \/ RunRevenuePerInstructor

SpecRevenue == InitRevenue /\ [][NextRevenue]_vars

\* The courses of instructor i
CoursesOf(i) == {c \in courses : c.instructorId = i}

\* The sum over i's courses of enrollment count times price
RevenueOf(i) ==
    SumOver(CoursesOf(i),
            [c \in CoursesOf(i) |->
                Cardinality(EnrollmentsOf(c.courseId)) * c.price])

\* C3: the revenue query returns, for every instructor that owns a course
\* (and for nobody else), one row whose totalRevenue is the sum over the
\* instructor's courses of the number of Enrollment records with the
\* course's courseId times the course's price.
C3_RevenuePerInstructor ==
    call.op = "RevenuePerInstructor" =>
        /\ ~ ret.raised
        /\ ret.value = {[_id |-> i, totalRevenue |-> RevenueOf(i)] :
                           i \in {c.instructorId : c \in courses}}

\* The revenue was taken with an instructor whose two enrolled courses have
\* different prices, a course nobody is enrolled in, and an enrollment that
\* matches no course.
C3_Witness ==
    /\ call.op = "RevenuePerInstructor"
    /\ \E c, d \in courses :
           /\ c.instructorId = d.instructorId /\ c.price # d.price
           /\ EnrollmentsOf(c.courseId) # {} /\ EnrollmentsOf(d.courseId) # {}
    /\ \E c \in courses : EnrollmentsOf(c.courseId) = {}
    /\ \E e \in enrollments : ~ \E c \in courses : c.courseId = e.courseId

-----------------------------------------------------------------------------
(* Ratings: the generator (whose courses carry no rating), create_course    *)
(* with and without a rating, and the two average-rating pipelines.        *)

\* A course document with the optional rating
RatedCourseDoc(cid, instructor, rating) ==
    ("rating" :> rating) @@ CourseDoc(cid, instructor, "Programming", 10)

InitRatings == Generated(OneDraw)

NextRatings ==
    \/ \E cid \in {"c001", "c002"}, i \in InstructorIds :
           create_course(CourseDoc(cid, i, "Programming", 10))
    \/ \E cid \in {"c001", "c002"}, i \in InstructorIds, r \in Ratings :
           create_course(RatedCourseDoc(cid, i, r))
    \/ \E cid \in {"c001", "c002"} : mark_course_published(cid)
    \/ RunAverageCourseRating
    \/ RunAverageRatingPerInstructor

SpecRatings == InitRatings /\ [][NextRatings]_vars

\* The courses that carry a rating
Rated == {c \in courses : "rating" \in DOMAIN c}

\* The average of the ratings of the courses of S, all of them rated
RatingAverage(S) == <<SumOver(S, [c \in S |-> c.rating]), Cardinality(S)>>

\* C5: each average-rating query returns what it would return were the
\* courses without a rating not in storage: one row per courseId (per
\* instructorId) of a rated course, with the average over the rated courses
\* of that key, and no row for a key all of whose courses lack a rating.
C5_UnratedCoursesLeftOut ==
    /\ call.op = "AverageCourseRating" =>
           /\ ret.value =
                  {[_id |-> k,
                    avgRating |->
                        RatingAverage({c \in Rated : c.courseId = k})] :
                      k \in {c.courseId : c \in Rated}}
           /\ \A c \in courses :
                  (\A d \in courses : d.courseId = c.courseId => d \notin Rated)
                      => ~ \E r \in ret.value : r._id = c.courseId
    /\ call.op = "AverageRatingPerInstructor" =>
           /\ ret.value =
                  {[_id |-> k,
                    averageRating |->
                        RatingAverage({c \in Rated : c.instructorId = k})] :
                      k \in {c.instructorId : c \in Rated}}
           /\ \A c \in courses :
                  CoursesOf(c.instructorId) \cap Rated = {}
                      => ~ \E r \in ret.value : r._id = c.instructorId

\* The per-instructor average was taken with one instructor who has a rated
\* and an unrated course and another whose only course is unrated.
C5_Witness ==
    /\ call.op = "AverageRatingPerInstructor"
    /\ \E c \in Rated, d \in courses \ Rated : c.instructorId = d.instructorId
    /\ \E c \in courses : CoursesOf(c.instructorId) \cap Rated = {}
    /\ ret.value # {}

-----------------------------------------------------------------------------
(* Grades: the generator, update_assignment_grade and the two grade         *)
(* pipelines.  No accessor inserts a submission.                           *)

InitGrades ==
    Generated([OneDraw EXCEPT !.nSubmissions = 3, !.students = StudentIds,
                              !.grades = Grades])

NextGrades ==
    \/ \E sid \in {0, 51, 52}, grade \in {80, 100} :
           update_assignment_grade(sid, grade)
    \/ RunAverageGradePerStudent
    \/ RunTopStudents

SpecGrades == InitGrades /\ [][NextGrades]_vars

\* The submissions of student s
SubmissionsOf(s) == {x \in submissions : x.studentId = s}

\* The sum of the grades of student s
GradeSum(s) == SumOver(SubmissionsOf(s), [x \in SubmissionsOf(s) |-> x.grade])

\* The students whose average grade is at least 90
AtLeast90 ==
    {s \in {x.studentId : x \in submissions} :
        GradeSum(s) >= 90 * Cardinality(SubmissionsOf(s))}

\* C4: the top-students query returns exactly the students whose average
\* grade over all their submissions is at least 90, each once and with that
\* average, in descending order of the average.
C4_TopStudents ==
    call.op = "TopStudents" =>
        /\ {r._id : r \in Range(ret.value)} = AtLeast90
        /\ Cardinality(DOMAIN ret.value) = Cardinality(AtLeast90)
        /\ \A r \in Range(ret.value) :
               r.averageGrade[1] * Cardinality(SubmissionsOf(r._id))
                   = GradeSum(r._id) * r.averageGrade[2]
        /\ \A i, j \in DOMAIN ret.value :
               i < j =>
                   GradeSum(ret.value[i]._id)
                           * Cardinality(SubmissionsOf(ret.value[j]._id))
                       >= GradeSum(ret.value[j]._id)
                           * Cardinality(SubmissionsOf(ret.value[i]._id))

\* The query ran with a student whose average is exactly 90 (returned) and a
\* student below 90 one of whose submissions is at 90 or above (left out).
C4_Witness ==
    /\ call.op = "TopStudents"
    /\ \E r \in Range(ret.value) :
           GradeSum(r._id) = 90 * Cardinality(SubmissionsOf(r._id))
    /\ \E x \in submissions :
           /\ x.grade >= 90
           /\ x.studentId \notin AtLeast90
           /\ x.studentId \notin {r._id : r \in Range(ret.value)}

\* C10: after update_assignment_grade(submission_id, grade) for the _id of
\* a Submission record of the submissions collection, that record has the
\* new grade.
C10_GradeUpdated ==
    \A x \in submissions :
        (call.op = "update_assignment_grade" /\ call.args[1] = x._id)
            => x.grade = call.args[2]

-----------------------------------------------------------------------------
(* Indexes and inserts into users: the generator, create_indexes,           *)
(* add_student_user, insert_with_error_handling, update_user_profile and   *)
(* soft_delete_user.                                                       *)

\* The users the callers try to add: one with the email of a generated user,
\* two with a new one.
NewUsers ==
    { UserDoc("u005", "s1@x.org", "student"),
      UserDoc("u005", "n1@x.org", "student"),
      UserDoc("u006", "n1@x.org", "student") }

InitIndexes == Generated(OneDraw)

NextIndexes ==
    \/ create_indexes
    \/ \E u \in NewUsers : add_student_user(u)
    \/ \E u \in NewUsers : insert_with_error_handling("users", u)
    \/ insert_with_error_handling("courses",
                                  CourseDoc("c002", "u001", "Design", 60))
    \/ update_user_profile("u004", [email |-> "s1@x.org"])
    \/ soft_delete_user("u002")

SpecIndexes == InitIndexes /\ [][NextIndexes]_vars

\* The four indexes create_indexes declares
Declared ==
    {EmailIndex, TitleCategoryIndex, DueDateIndex, StudentCourseIndex}

\* The indexes on the keys ks of the collection called name
IndexesOn(name, ks) == {ix \in indexes : ix.coll = name /\ ix.keys = ks}

\* An insert into users, through either accessor, of the document doc
InsertsUser(c, doc) ==
    \/ c.op = "add_student_user" /\ c.args = <<doc>>
    \/ c.op = "insert_with_error_handling" /\ c.args = <<"users", doc>>

\* C6: a create_indexes call on users without duplicate emails raises
\* nothing and leaves exactly the four declared indexes, one per declaration;
\* a further call changes nothing and raises nothing; and once the unique
\* email index exists, an insert of a user whose email an existing user has
\* fails (the driver raises, or the wrapper reports the failure) and leaves
\* users as it was.
C6_IndexesIdempotent ==
    /\ [](call.op = "create_indexes" /\ ~ HasDuplicates(users, <<"email">>)
            => /\ ~ ret.raised
               /\ indexes = Declared
               /\ Cardinality(IndexesOn("users", <<"email">>)) = 1
               /\ Cardinality(IndexesOn("courses", <<"title", "category">>)) = 1
               /\ Cardinality(IndexesOn("assignments", <<"dueDate">>)) = 1
               /\ Cardinality(IndexesOn("enrollments",
                                        <<"studentId", "courseId">>)) = 1
               /\ \A ix \in IndexesOn("users", <<"email">>) : ix.unique)
    /\ [][indexes = Declared /\ call'.op = "create_indexes"
            => indexes' = indexes /\ ~ ret'.raised]_vars
    /\ [][\A doc \in NewUsers :
            (/\ EmailIndex \in indexes
             /\ InsertsUser(call', doc)
             /\ \E u \in users : u.email = doc.email)
            => /\ users' = users
               /\ \/ ret'.raised /\ ret'.value = "DuplicateKeyError"
                  \/ stdout' = <<"Insertion failed">>]_vars

\* With the four indexes declared and no more, add_student_user was refused
\* a user whose email another user has.
C6_Witness ==
    /\ indexes = Declared
    /\ call.op = "add_student_user"
    /\ ret.raised
    /\ \E u \in users : u.email = call.args[1].email

\* C7: insert_with_error_handling never raises and always returns None; when
\* the insert fails on a duplicate email it prints a message and leaves the
\* collection as it was, and when it succeeds it prints nothing.
C7_FailureSwallowed ==
    /\ [](call.op = "insert_with_error_handling"
            => ~ ret.raised /\ ret.value = Null)
    /\ [][\A doc \in NewUsers :
            call' = [op |-> "insert_with_error_handling",
                     args |-> <<"users", doc>>]
            => IF DuplicateKey("users", users, doc)
               THEN users' = users /\ stdout' # <<>>
               ELSE users' # users /\ stdout' = <<>>]_vars

\* insert_with_error_handling was refused a user with a duplicate email and
\* returned None.
C7_Witness ==
    /\ call.op = "insert_with_error_handling"
    /\ call.args[1] = "users"
    /\ EmailIndex \in indexes
    /\ \E u \in users : u.email = call.args[2].email
    /\ stdout = <<"Insertion failed">>
    /\ ret = [raised |-> FALSE, value |-> Null]

-----------------------------------------------------------------------------
(* Every accessor and every pipeline, from one run of the generator *)

RunGetActiveStudents == Query("get_active_students", <<>>, get_active_students)

RunGetCourseWithInstructor(course_id) ==
    Query("get_course_with_instructor", <<course_id>>,
          get_course_with_instructor(course_id))

RunGetCoursesByCategory(category) ==
    Query("get_courses_by_category", <<category>>,
          get_courses_by_category(category))

RunGetStudentsInCourse(course_id) ==
    Query("get_students_in_course", <<course_id>>,
          get_students_in_course(course_id))

RunFindCoursesInPriceRange ==
    Query("find_courses_in_price_range", <<>>, find_courses_in_price_range)

RunFindCoursesWithTags(tags) ==
    Query("find_courses_with_tags", <<tags>>, find_courses_with_tags(tags))

Init == Generated(OneDraw)

Accessors ==
    \/ add_student_user(UserDoc("u005", "s1@x.org", "student"))
    \/ create_course(CourseDoc("c002", "u003", "Design", 60))
    \/ enroll_student(EnrollmentDoc("u004", "c001", <<2024, 1, 20>>))
    \/ add_lesson_to_course(LessonDoc("c001"))
    \/ update_user_profile("u002", [isActive |-> TRUE])
    \/ mark_course_published("c001")
    \/ \E sid \in {0, 51} : update_assignment_grade(sid, 100)
    \/ add_tags_to_course("c001", {"Cloud"})
    \/ soft_delete_user("u002")
    \/ \E oid \in {0, 21} : delete_enrollment(oid)
    \/ \E oid \in {0, 31} : remove_lesson(oid)
    \/ insert_with_error_handling("users",
                                  UserDoc("u005", "s1@x.org", "student"))
    \/ create_indexes

Reads ==
    \/ RunGetActiveStudents
    \/ RunGetCourseWithInstructor("c001")
    \/ RunGetCoursesByCategory("Design")
    \/ RunGetStudentsInCourse("c001")
    \/ RunFindCoursesInPriceRange
    \/ RunFindCoursesWithTags({"Cloud"})
    \/ explain_and_time

Analytics ==
    \/ RunEnrollmentsPerCourse
    \/ RunAverageCourseRating
    \/ RunCoursesPerCategory
    \/ RunAverageGradePerStudent
    \/ RunCompletionRateByCourse
    \/ RunTopStudents
    \/ RunStudentsPerInstructor
    \/ RunAverageRatingPerInstructor
    \/ RunRevenuePerInstructor
    \/ RunMonthlyEnrollmentTrends
    \/ RunMostPopularCategories
    \/ RunStudentEngagement

Next == Accessors \/ Reads \/ Analytics

Spec == Init /\ [][Next]_vars

\* The calls that write: the create, update and delete accessors, the insert
\* wrapper and create_indexes
WritingOps ==
    {"add_student_user", "create_course", "enroll_student",
     "add_lesson_to_course", "update_user_profile", "mark_course_published",
     "update_assignment_grade", "add_tags_to_course", "soft_delete_user",
     "delete_enrollment", "remove_lesson", "insert_with_error_handling",
     "create_indexes"}

\* The calls that write to users, to courses, to enrollments and to lessons
UserOps == {"add_student_user", "update_user_profile", "soft_delete_user"}

CourseOps == {"create_course", "mark_course_published", "add_tags_to_course"}

EnrollmentOps == {"enroll_student", "delete_enrollment"}

LessonOps == {"add_lesson_to_course", "remove_lesson"}

\* Every document of coll is in coll2 under its _id.
IdsKept(coll, coll2) == \A d \in coll : \E e \in coll2 : e._id = d._id

\* C8: in every step, a record leaves its collection only when
\* delete_enrollment or remove_lesson was called with its _id;
\* soft_delete_user keeps every user and changes nothing but the isActive of
\* a user with the given userId, to False; soft_delete_user and
\* delete_enrollment leave every other record of every collection as it
\* was; no call removes a user, a course, an assignment or a submission; an
\* accessor of one collection changes no other collection; and a read
\* accessor or a pipeline changes no collection.
C8_OnlyExplicitDeletes ==
    [][ /\ IdsKept(users, users') /\ IdsKept(courses, courses')
        /\ IdsKept(assignments, assignments')
        /\ IdsKept(submissions, submissions')
        /\ \A e \in enrollments :
               e \in enrollments'
                   \/ call' = [op |-> "delete_enrollment", args |-> <<e._id>>]
        /\ \A l \in lessons :
               l \in lessons'
                   \/ call' = [op |-> "remove_lesson", args |-> <<l._id>>]
        /\ call'.op = "soft_delete_user" =>
               /\ \A u \in users :
                      \/ u \in users'
                      \/ /\ u.userId = call'.args[1]
                         /\ [u EXCEPT !.isActive = FALSE] \in users'
               /\ Cardinality(users') = Cardinality(users)
               /\ UNCHANGED <<courses, enrollments, lessons, assignments,
                              submissions, assignment_submissions>>
        /\ call'.op = "delete_enrollment" =>
               /\ enrollments' \subseteq enrollments
               /\ UNCHANGED <<users, courses, lessons, assignments,
                              submissions, assignment_submissions>>
        /\ call'.op \in UserOps =>
               UNCHANGED <<courses, enrollments, lessons, assignments,
                           submissions>>
        /\ call'.op \in CourseOps =>
               UNCHANGED <<users, enrollments, lessons, assignments,
                           submissions>>
        /\ call'.op \in EnrollmentOps =>
               UNCHANGED <<users, courses, lessons, assignments, submissions>>
        /\ call'.op \in LessonOps =>
               UNCHANGED <<users, courses, enrollments, assignments,
                           submissions>>
        /\ call'.op = "update_assignment_grade" =>
               UNCHANGED <<users, courses, enrollments, lessons, assignments>>
        /\ (call'.op = "insert_with_error_handling" /\ call'.args[1] = "users")
               => UNCHANGED <<courses, enrollments, lessons, assignments,
                              submissions>>
        /\ call'.op \notin WritingOps => UNCHANGED storage
      ]_vars

\* An enrollment has been deleted and a user soft-deleted: the user is still
\* in users, inactive, and the other collections still hold their records.
C8_Witness ==
    /\ call = [op |-> "delete_enrollment", args |-> <<21>>]
    /\ ~ \E e \in enrollments : e._id = 21
    /\ \E u \in users : u.userId = "u002" /\ ~ u.isActive
    /\ Cardinality(users) >= 4
    /\ courses # {} /\ lessons # {} /\ assignments # {} /\ submissions # {}

====
